---- MODULE Spec2Model ----
(***************************************************************************)
(* Model of the invoice-management server (src/index.js): the Vendor,      *)
(* Invoice and ActivityLog collections, the payment processor as seen      *)
(* through the stripe client, and the request handlers.  Every `await` of  *)
(* a handler is one atomic step (node runs the code between two awaits     *)
(* without interleaving); the outcome of each store or processor call is   *)
(* an input of the step that performs it.                                  *)
(*                                                                         *)
(* Identifiers are pairs <<kind, n>>: "cus" processor customers, "in"      *)
(* processor invoices, "ch" charges, "po" payouts, "oid" local record ids. *)
(* Ledger entries and refund calls carry the request that issued them      *)
(* (field `by`) as history; the code does not store it.                    *)
(***************************************************************************)
EXTENDS Integers, Sequences, FiniteSets, TLC

MaxEvents == 2
MaxDeliveries == 2
MaxRegister == 2
MaxApprove == 1
MaxCreateInvoice == 1
MaxRequests == 1
MaxAddCustomer == 2
MaxLogin == 1
MaxFaults == 1

Deliveries == 1..MaxDeliveries
Registrations == 1..MaxRegister
Approvals == 1..MaxApprove
InvoiceRequests == 1..MaxCreateInvoice
RequestSlots == 1..MaxRequests
AddCustomerRequests == 1..MaxAddCustomer
Logins == 1..MaxLogin

Usernames == {"v1"}

(* Usernames a register request may carry: a taken one and a free one *)
Applicants == {"v1", "v2"}
Roles == {"none", "vendor", "admin"}
Amounts == {50}

None == <<"none", 0>>

WebhookSecret == "whsec"
OtherSecret == "whsec_other"

ExternalCus == <<"cus", 0>>
ExternalInv == <<"in", 0>>
Charge1 == <<"ch", 1>>
Payout1 == <<"po", 1>>

Statuses == {"active", "canceled"}

(* Statuses stripe.subscriptions.create returns *)
CreatedStatuses == {"active", "incomplete"}

VARIABLES vendors, invoices, activityLog, nextOid, stripe, events, hook, reg, appr, cinv,
          fwd, addc, login, faults

vars == <<vendors, invoices, activityLog, nextOid, stripe, events, hook, reg, appr, cinv, fwd,
          addc, login, faults>>

store == <<vendors, invoices, activityLog, nextOid>>

forward == <<reg, appr, cinv, fwd, addc, login>>

----------------------------------------------------------------------------
(* Collections *)

Oid(n) == <<"oid", n>>

VendorByUsername(u) == {v \in vendors : v.username = u}

VendorByCustomer_Any(cus) == vendors

VendorByCustomer(cus) == {v \in vendors : v.stripeCustomerId = cus}

PaidRelatedId_StripeId(i) == i.id

PaidRelatedId(i) == i._id

InvoiceById_Any(id) == invoices

InvoiceById(id) == {i \in invoices : i.id = id}

ActivityLogCreate_Upsert(entry) ==
  LET same == {n \in DOMAIN activityLog :
                 /\ activityLog[n].eventType = entry.eventType
                 /\ activityLog[n].relatedId = entry.relatedId} IN
    IF same = {} THEN Append(activityLog, entry)
    ELSE [activityLog EXCEPT ![CHOOSE n \in same : TRUE] = entry]

(* ActivityLog.create: one new document, timestamp Date.now *)
ActivityLogCreate(entry) == Append(activityLog, entry)

LogEntry(type, related, by) == [eventType |-> type, relatedId |-> related, by |-> by]

----------------------------------------------------------------------------
(* Processor events and their signed delivery *)

StripeCustomers == {ExternalCus} \cup {<<"cus", n>> : n \in 1..(stripe.nextCus - 1)}

StripeInvoices == {ExternalInv} \cup {<<"in", n>> : n \in 1..(stripe.nextInv - 1)}

Event(type, ref, status) == [type |-> type, ref |-> ref, status |-> status]

EventValues ==
  {Event("charge.dispute.created", Charge1, "")}
  \cup {Event("customer.subscription.updated", c, s) : c \in StripeCustomers, s \in Statuses}
  \cup {Event("invoice.payment_succeeded", i, "") : i \in StripeInvoices}
  \cup {Event(t, Payout1, "") : t \in {"payout.succeeded", "payout.failed"}}
  \cup {Event("charge.refunded", Charge1, "")}
  \cup {Event("customer.created", ExternalCus, "")}

Body(k, bytes) == [evt |-> k, bytes |-> bytes]

Sign(secret, body) == [secret |-> secret, mac |-> body]

NoBody == Body(0, "")

NoSig == Sign("", NoBody)

Requests ==
  {[type |-> "application/json", body |-> Body(k, b), sig |-> Sign(s, Body(k, "sent"))] :
      k \in 1..Len(events), b \in {"sent", "tampered"}, s \in {WebhookSecret, OtherSecret}}
  \cup {[type |-> "application/json", body |-> Body(k, "sent"), sig |-> NoSig] :
          k \in 1..Len(events)}

(* Body parsers: each leaves a request alone once an earlier parser has set *)
(* req._body; the JSON parser turns the bytes into an object, the raw       *)
(* parser keeps them as a Buffer.                                           *)
Incoming(rq) == [type |-> rq.type, bytes |-> rq.body, parsed |-> FALSE,
                 body |-> [form |-> "object", data |-> NoBody]]

jsonParser(req) ==
  IF req.parsed \/ req.type # "application/json" THEN req
  ELSE [req EXCEPT !.parsed = TRUE, !.body = [form |-> "object", data |-> req.bytes]]

rawParser(req) ==
  IF req.parsed \/ req.type # "application/json" THEN req
  ELSE [req EXCEPT !.parsed = TRUE, !.body = [form |-> "buffer", data |-> req.bytes]]

RECURSIVE RunChain(_, _)
RunChain(chain, req) ==
  IF chain = <<>> THEN req
  ELSE RunChain(Tail(chain),
                IF Head(chain) = "json" THEN jsonParser(req) ELSE rawParser(req))

RouteChain == <<"raw">>

AppChain == <<"json", "raw">>

constructEvent_SecretOnly(payload, sig, secret) ==
  IF payload.form = "buffer" /\ sig.secret = secret
  THEN [threw |-> FALSE, evt |-> payload.data.evt]
  ELSE [threw |-> TRUE, evt |-> payload.data.evt]

constructEvent(payload, sig, secret) ==
  IF payload.form = "buffer" /\ sig = Sign(secret, payload.data)
  THEN [threw |-> FALSE, evt |-> payload.data.evt]
  ELSE [threw |-> TRUE, evt |-> payload.data.evt]

IdleHook == [pc |-> "idle", body |-> NoBody, sig |-> NoSig, evt |-> 0,
             resp |-> <<>>, refund |-> "none", hit |-> "none", rec |-> None]

Dispatch_DefaultAudit(type) ==
  CASE type = "charge.dispute.created" -> "refund"
    [] type = "customer.subscription.updated" -> "subUpdate"
    [] type = "invoice.payment_succeeded" -> "invUpdate"
    [] OTHER -> "logAudit"

Dispatch_FallThrough(type) ==
  CASE type = "charge.dispute.created" -> "refund"
    [] type = "customer.subscription.updated" -> "subUpdate"
    [] type \in {"invoice.payment_succeeded", "payout.succeeded", "payout.failed",
                 "charge.refunded"} -> "logAudit"
    [] OTHER -> "respond"

Dispatch(type) ==
  CASE type = "charge.dispute.created" -> "refund"
    [] type = "customer.subscription.updated" -> "subUpdate"
    [] type = "invoice.payment_succeeded" -> "invUpdate"
    [] type \in {"payout.succeeded", "payout.failed", "charge.refunded"} -> "logAudit"
    [] OTHER -> "respond"

AuditType_PayoutOnly(type) ==
  CASE type = "payout.failed" -> "payout_failed"
    [] OTHER -> "payout_succeeded"

AuditType(type) ==
  CASE type = "payout.succeeded" -> "payout_succeeded"
    [] type = "payout.failed" -> "payout_failed"
    [] OTHER -> "charge_refunded"

Respond(h, code) == [h EXCEPT !.pc = "done", !.resp = Append(@, code)]

Crash(h) == [h EXCEPT !.pc = "crashed"]


----------------------------------------------------------------------------
(* Forward actions *)

IdleReg == [pc |-> "idle", username |-> "", cus |-> None, rec |-> None, resp |-> <<>>]

IdleAppr == [pc |-> "idle", username |-> "", role |-> "none", rec |-> None, resp |-> <<>>]

IdleCinv == [pc |-> "idle", customerId |-> None, amount |-> 0,
             inv |-> None, status |-> "", charged |-> FALSE, resp |-> <<>>]

IdleReq == [op |-> "", pc |-> "idle", username |-> "", rec |-> None, cus |-> None,
            was |-> "", status |-> "", obj |-> None, resp |-> <<>>]

IdleAddc == [pc |-> "idle", username |-> "", customerId |-> None, rec |-> None, resp |-> <<>>]

IdleLogin == [pc |-> "idle", username |-> "", match |-> FALSE, approved |-> FALSE,
              resp |-> <<>>]

(* A vendor token is issued by login, to an approved vendor only *)
TokenIssued(role) == role = "vendor" => \E v \in vendors : v.approved

authenticateToken(role) == IF role = "none" THEN 401 ELSE 200

NewVendor(id, u, cus) ==
  [_id |-> id, username |-> u, approved |-> FALSE, customers |-> <<>>,
   stripeCustomerId |-> cus, subscriptionStatus |-> "trialing",
   stripeConnectAccountId |-> None]

NewInvoice(oid, id, cus, amount, status) ==
  [_id |-> oid, id |-> id, customerId |-> cus, amount |-> amount, status |-> status]

----------------------------------------------------------------------------
(* Requests in flight, and the budget of calls that throw *)

Busy(p) == p.pc \notin {"idle", "done", "crashed"}

InFlight ==
  Cardinality({d \in Deliveries : Busy(hook[d])})
  + Cardinality({r \in Registrations : Busy(reg[r])})
  + Cardinality({a \in Approvals : Busy(appr[a])})
  + Cardinality({c \in InvoiceRequests : Busy(cinv[c])})
  + Cardinality({q \in RequestSlots : Busy(fwd[q])})
  + Cardinality({k \in AddCustomerRequests : Busy(addc[k])})
  + Cardinality({l \in Logins : Busy(login[l])})

Outcome(ok) ==
  /\ ok \/ faults < MaxFaults
  /\ faults' = IF ok THEN faults ELSE faults + 1

----------------------------------------------------------------------------
InitRequests ==
  /\ events = <<>>
  /\ hook = [d \in Deliveries |-> IdleHook]
  /\ reg = [r \in Registrations |-> IdleReg]
  /\ appr = [a \in Approvals |-> IdleAppr]
  /\ cinv = [c \in InvoiceRequests |-> IdleCinv]
  /\ fwd = [q \in RequestSlots |-> IdleReq]
  /\ addc = [k \in AddCustomerRequests |-> IdleAddc]
  /\ login = [l \in Logins |-> IdleLogin]
  /\ faults = 0

InitEmpty ==
  /\ vendors = {}
  /\ invoices = {}
  /\ activityLog = <<>>
  /\ nextOid = 1
  /\ stripe = [nextCus |-> 1, nextInv |-> 1, refunds |-> <<>>, subs |-> {}, nextObj |-> 1]
  /\ InitRequests

Init ==
  /\ vendors = {NewVendor(Oid(1), "v1", <<"cus", 1>>)}
  /\ invoices = {NewInvoice(Oid(2), <<"in", 1>>, ExternalCus, 50, "open")}
  /\ activityLog = <<LogEntry("vendor_registered", Oid(1), <<"reg", 1>>),
                     LogEntry("invoice_created", <<"in", 1>>, <<"cinv", 1>>)>>
  /\ nextOid = 3
  /\ stripe = [nextCus |-> 2, nextInv |-> 2, refunds |-> <<>>, subs |-> {}, nextObj |-> 1]
  /\ InitRequests

(* The store of Init after v1 has been approved, has connected an account *)
(* and has subscribed                                                     *)
InitSubscribed ==
  /\ vendors = {[NewVendor(Oid(1), "v1", <<"cus", 1>>) EXCEPT
                   !.approved = TRUE,
                   !.subscriptionStatus = "active",
                   !.stripeConnectAccountId = <<"acct", 1>>]}
  /\ invoices = {NewInvoice(Oid(2), <<"in", 1>>, ExternalCus, 50, "open")}
  /\ activityLog = <<LogEntry("vendor_registered", Oid(1), <<"reg", 1>>),
                     LogEntry("vendor_approved", Oid(1), <<"appr", 1>>),
                     LogEntry("invoice_created", <<"in", 1>>, <<"cinv", 1>>),
                     LogEntry("vendor_subscribed", Oid(1), <<"fwd", 1>>)>>
  /\ nextOid = 3
  /\ stripe = [nextCus |-> 2, nextInv |-> 2, refunds |-> <<>>, subs |-> {<<"cus", 1>>},
               nextObj |-> 2]
  /\ InitRequests

Emit(e) ==
  /\ Len(events) < MaxEvents
  /\ UNCHANGED faults
  /\ events' = Append(events, e)
  /\ UNCHANGED <<store, stripe, hook, forward>>

Webhook(d, rq, chain) ==
  /\ hook[d].pc = "idle"
  /\ UNCHANGED faults
  /\ \A p \in Deliveries : p < d => hook[p].pc # "idle"
  /\ LET ev == constructEvent(RunChain(chain, Incoming(rq)).body, rq.sig, WebhookSecret)
         h == [hook[d] EXCEPT !.body = rq.body, !.sig = rq.sig] IN
       hook' = [hook EXCEPT ![d] =
                  IF ev.threw THEN Respond(h, 400)
                  ELSE IF Dispatch(events[ev.evt].type) = "respond"
                       THEN Respond([h EXCEPT !.evt = ev.evt], 200)
                       ELSE [h EXCEPT !.evt = ev.evt, !.pc = Dispatch(events[ev.evt].type)]]
  /\ UNCHANGED <<store, stripe, events, forward>>

Refund(d, ok) ==
  /\ hook[d].pc = "refund"
  /\ Outcome(ok)
  /\ stripe' = [stripe EXCEPT !.refunds =
                  Append(@, [charge |-> events[hook[d].evt].ref, by |-> <<"hook", d>>])]
  /\ hook' = [hook EXCEPT ![d] = [@ EXCEPT !.refund = IF ok THEN "ok" ELSE "failed",
                                         !.pc = IF ok THEN "logRefund" ELSE "logRefundFailed"]]
  /\ UNCHANGED <<store, events, forward>>

LogRefund(d, ok) ==
  /\ hook[d].pc = "logRefund"
  /\ Outcome(ok)
  /\ IF ok
     THEN /\ activityLog' = ActivityLogCreate(LogEntry("fraud_warning_refund", events[hook[d].evt].ref, <<"hook", d>>))
          /\ hook' = [hook EXCEPT ![d] = Respond(@, 200)]
     ELSE /\ activityLog' = activityLog
          /\ hook' = [hook EXCEPT ![d] = [@ EXCEPT !.pc = "logRefundFailed"]]
  /\ UNCHANGED <<vendors, invoices, nextOid, stripe, events, forward>>

LogRefundFailed(d, ok) ==
  /\ hook[d].pc = "logRefundFailed"
  /\ Outcome(ok)
  /\ IF ok
     THEN /\ activityLog' = ActivityLogCreate(LogEntry("fraud_warning_refund_failed", events[hook[d].evt].ref, <<"hook", d>>))
          /\ hook' = [hook EXCEPT ![d] = Respond(@, 200)]
     ELSE /\ activityLog' = activityLog
          /\ hook' = [hook EXCEPT ![d] = Crash(@)]
  /\ UNCHANGED <<vendors, invoices, nextOid, stripe, events, forward>>

SubUpdate(d, ok) ==
  /\ hook[d].pc = "subUpdate"
  /\ Outcome(ok)
  /\ LET ev == events[hook[d].evt]
         found == VendorByCustomer(ev.ref) IN
       IF ~ok
       THEN /\ vendors' = vendors
            /\ hook' = [hook EXCEPT ![d] = Respond([@ EXCEPT !.hit = "error"], 200)]
       ELSE IF found = {}
       THEN /\ vendors' = vendors
            /\ hook' = [hook EXCEPT ![d] = Respond([@ EXCEPT !.hit = "miss"], 200)]
       ELSE LET v == CHOOSE x \in found : \A y \in found : x._id[2] <= y._id[2] IN
            /\ vendors' = (vendors \ {v}) \cup {[v EXCEPT !.subscriptionStatus = ev.status]}
            /\ hook' = [hook EXCEPT ![d] = [@ EXCEPT !.hit = "found", !.rec = v._id, !.pc = "logSub"]]
  /\ UNCHANGED <<invoices, activityLog, nextOid, stripe, events, forward>>

LogSub(d, ok) ==
  /\ hook[d].pc = "logSub"
  /\ Outcome(ok)
  /\ activityLog' = IF ok
                    THEN ActivityLogCreate(LogEntry("subscription_status_updated", hook[d].rec, <<"hook", d>>))
                    ELSE activityLog
  /\ hook' = [hook EXCEPT ![d] = Respond(@, 200)]
  /\ UNCHANGED <<vendors, invoices, nextOid, stripe, events, forward>>

InvUpdate(d, ok) ==
  /\ hook[d].pc = "invUpdate"
  /\ Outcome(ok)
  /\ LET ev == events[hook[d].evt]
         found == InvoiceById(ev.ref) IN
       IF ~ok
       THEN /\ invoices' = invoices
            /\ hook' = [hook EXCEPT ![d] = Respond([@ EXCEPT !.hit = "error"], 200)]
       ELSE IF found = {}
       THEN /\ invoices' = invoices
            /\ hook' = [hook EXCEPT ![d] = Respond([@ EXCEPT !.hit = "miss"], 200)]
       ELSE LET i == CHOOSE x \in found : \A y \in found : x._id[2] <= y._id[2] IN
            /\ invoices' = (invoices \ {i}) \cup {[i EXCEPT !.status = "paid"]}
            /\ hook' = [hook EXCEPT ![d] = [@ EXCEPT !.hit = "found", !.rec = PaidRelatedId(i), !.pc = "logInv"]]
  /\ UNCHANGED <<vendors, activityLog, nextOid, stripe, events, forward>>

LogInv(d, ok) ==
  /\ hook[d].pc = "logInv"
  /\ Outcome(ok)
  /\ activityLog' = IF ok
                    THEN ActivityLogCreate(LogEntry("invoice_paid", hook[d].rec, <<"hook", d>>))
                    ELSE activityLog
  /\ hook' = [hook EXCEPT ![d] = Respond(@, 200)]
  /\ UNCHANGED <<vendors, invoices, nextOid, stripe, events, forward>>

LogAudit(d, ok) ==
  /\ hook[d].pc = "logAudit"
  /\ Outcome(ok)
  /\ IF ok
     THEN /\ activityLog' = ActivityLogCreate(LogEntry(AuditType(events[hook[d].evt].type), events[hook[d].evt].ref, <<"hook", d>>))
          /\ hook' = [hook EXCEPT ![d] = Respond(@, 200)]
     ELSE /\ activityLog' = activityLog
          /\ hook' = [hook EXCEPT ![d] = Crash(@)]
  /\ UNCHANGED <<vendors, invoices, nextOid, stripe, events, forward>>

Register(r, u) ==
  /\ reg[r].pc = "idle"
  /\ UNCHANGED faults
  /\ \A p \in Registrations : p < r => reg[p].pc # "idle"
  /\ reg' = [reg EXCEPT ![r] = [@ EXCEPT !.username = u, !.pc = "findOne"]]
  /\ UNCHANGED <<store, stripe, events, hook, appr, cinv, fwd, addc, login>>

RegisterFind(r, ok) ==
  /\ reg[r].pc = "findOne"
  /\ Outcome(ok)
  /\ reg' = [reg EXCEPT ![r] =
               IF ~ok THEN Respond(@, 500)
               ELSE IF VendorByUsername(reg[r].username) # {} THEN Respond(@, 409)
               ELSE [@ EXCEPT !.pc = "customer"]]
  /\ UNCHANGED <<store, stripe, events, hook, appr, cinv, fwd, addc, login>>

RegisterCustomer(r, ok) ==
  /\ reg[r].pc = "customer"
  /\ Outcome(ok)
  /\ IF ok
     THEN /\ stripe' = [stripe EXCEPT !.nextCus = @ + 1]
          /\ reg' = [reg EXCEPT ![r] = [@ EXCEPT !.cus = <<"cus", stripe.nextCus>>, !.pc = "save"]]
     ELSE /\ stripe' = stripe
          /\ reg' = [reg EXCEPT ![r] = Respond(@, 500)]
  /\ UNCHANGED <<store, events, hook, appr, cinv, fwd, addc, login>>

RegisterSave(r, ok) ==
  /\ reg[r].pc = "save"
  /\ Outcome(ok)
  /\ IF ok /\ VendorByUsername(reg[r].username) = {}
     THEN /\ vendors' = vendors \cup {NewVendor(Oid(nextOid), reg[r].username, reg[r].cus)}
          /\ nextOid' = nextOid + 1
          /\ reg' = [reg EXCEPT ![r] = [@ EXCEPT !.rec = Oid(nextOid), !.pc = "log"]]
     ELSE /\ UNCHANGED <<vendors, nextOid>>
          /\ reg' = [reg EXCEPT ![r] = Respond(@, 500)]
  /\ UNCHANGED <<invoices, activityLog, stripe, events, hook, appr, cinv, fwd, addc, login>>

RegisterLog(r, ok) ==
  /\ reg[r].pc = "log"
  /\ Outcome(ok)
  /\ IF ok
     THEN /\ activityLog' = ActivityLogCreate(LogEntry("vendor_registered", reg[r].rec, <<"reg", r>>))
          /\ reg' = [reg EXCEPT ![r] = Respond(@, 201)]
     ELSE /\ activityLog' = activityLog
          /\ reg' = [reg EXCEPT ![r] = Respond(@, 500)]
  /\ UNCHANGED <<vendors, invoices, nextOid, stripe, events, hook, appr, cinv, fwd, addc, login>>

Approve(a, u, role) ==
  /\ appr[a].pc = "idle"
  /\ UNCHANGED faults
  /\ \A p \in Approvals : p < a => appr[p].pc # "idle"
  /\ appr' = [appr EXCEPT ![a] =
                IF authenticateToken(role) # 200
                THEN Respond(@, authenticateToken(role))
                ELSE [@ EXCEPT !.username = u, !.role = role, !.pc = "update"]]
  /\ UNCHANGED <<store, stripe, events, hook, reg, cinv, fwd, addc, login>>

ApproveUpdate(a, ok) ==
  /\ appr[a].pc = "update"
  /\ Outcome(ok)
  /\ LET found == VendorByUsername(appr[a].username) IN
       IF ~ok
       THEN /\ vendors' = vendors
            /\ appr' = [appr EXCEPT ![a] = Respond(@, 500)]
       ELSE IF found = {}
       THEN /\ vendors' = vendors
            /\ appr' = [appr EXCEPT ![a] = Respond(@, 404)]
       ELSE LET v == CHOOSE x \in found : \A y \in found : x._id[2] <= y._id[2] IN
            /\ vendors' = (vendors \ {v}) \cup {[v EXCEPT !.approved = TRUE]}
            /\ appr' = [appr EXCEPT ![a] = [@ EXCEPT !.rec = v._id, !.pc = "log"]]
  /\ UNCHANGED <<invoices, activityLog, nextOid, stripe, events, hook, reg, cinv, fwd, addc, login>>

ApproveLog(a, ok) ==
  /\ appr[a].pc = "log"
  /\ Outcome(ok)
  /\ IF ok
     THEN /\ activityLog' = ActivityLogCreate(LogEntry("vendor_approved", appr[a].rec, <<"appr", a>>))
          /\ appr' = [appr EXCEPT ![a] = Respond(@, 200)]
     ELSE /\ activityLog' = activityLog
          /\ appr' = [appr EXCEPT ![a] = Respond(@, 500)]
  /\ UNCHANGED <<vendors, invoices, nextOid, stripe, events, hook, reg, cinv, fwd, addc, login>>

CreateInvoice(c, cus, amount, role) ==
  /\ cinv[c].pc = "idle"
  /\ UNCHANGED faults
  /\ \A p \in InvoiceRequests : p < c => cinv[p].pc # "idle"
  /\ cinv' = [cinv EXCEPT ![c] =
                IF authenticateToken(role) # 200
                THEN Respond(@, authenticateToken(role))
                ELSE [@ EXCEPT !.customerId = cus, !.amount = amount, !.pc = "stripe"]]
  /\ UNCHANGED <<store, stripe, events, hook, reg, appr, fwd, addc, login>>

(* invoiceItems.create, customers.retrieve, invoices.create and, with a     *)
(* default payment method, finalizeInvoice: `outcome` is "error" when one  *)
(* of them throws, else the branch taken; `charged` tells whether the      *)
(* finalized invoice came back paid (the code does not read its status).   *)
CreateInvoiceStripe(c, outcome, charged) ==
  /\ cinv[c].pc = "stripe"
  /\ charged => outcome = "auto"
  /\ Outcome(outcome # "error")
  /\ IF outcome = "error" \/ cinv[c].customerId \notin StripeCustomers
     THEN /\ stripe' = stripe
          /\ cinv' = [cinv EXCEPT ![c] = Respond(@, 500)]
     ELSE /\ stripe' = [stripe EXCEPT !.nextInv = @ + 1]
          /\ cinv' = [cinv EXCEPT ![c] =
                        [@ EXCEPT !.inv = <<"in", stripe.nextInv>>,
                                  !.status = IF outcome = "auto" THEN "paid" ELSE "open",
                                  !.charged = charged,
                                  !.resp = Append(@, 200),
                                  !.pc = "save"]]
  /\ UNCHANGED <<store, events, hook, reg, appr, fwd, addc, login>>

CreateInvoiceSave(c, ok) ==
  /\ cinv[c].pc = "save"
  /\ Outcome(ok)
  /\ IF ok /\ InvoiceById(cinv[c].inv) = {}
     THEN /\ invoices' = invoices \cup
                {NewInvoice(Oid(nextOid), cinv[c].inv, cinv[c].customerId, cinv[c].amount,
                            cinv[c].status)}
          /\ nextOid' = nextOid + 1
          /\ cinv' = [cinv EXCEPT ![c] = [@ EXCEPT !.pc = "log"]]
     ELSE /\ UNCHANGED <<invoices, nextOid>>
          /\ cinv' = [cinv EXCEPT ![c] = Crash(@)]
  /\ UNCHANGED <<vendors, activityLog, stripe, events, hook, reg, appr, fwd, addc, login>>

CreateInvoiceLog(c, ok) ==
  /\ cinv[c].pc = "log"
  /\ Outcome(ok)
  /\ IF ok
     THEN /\ activityLog' = ActivityLogCreate(LogEntry(IF cinv[c].status = "paid" THEN "invoice_created_and_paid"
                         ELSE "invoice_created", cinv[c].inv, <<"cinv", c>>))
          /\ cinv' = [cinv EXCEPT ![c] = [@ EXCEPT !.pc = "done"]]
     ELSE /\ activityLog' = activityLog
          /\ cinv' = [cinv EXCEPT ![c] = Crash(@)]
  /\ UNCHANGED <<vendors, invoices, nextOid, stripe, events, hook, reg, appr, fwd, addc, login>>

----------------------------------------------------------------------------
(* The other forward actions that call the processor.  A request slot q   *)
(* records the endpoint (op), the vendor read by findOne (rec, cus), the  *)
(* status and object id the processor returned, and the responses sent.   *)

Arrive(q) ==
  /\ fwd[q].pc = "idle"
  /\ UNCHANGED faults
  /\ \A p \in RequestSlots : p < q => fwd[p].pc # "idle"
  /\ UNCHANGED <<store, stripe, events, hook, reg, appr, cinv, addc, login>>

(* req.user.username of a verified token *)
TokenUser(role, u) == IF role = "admin" THEN "admin" ELSE u

Authenticated(q, op, u, role, pc) ==
  fwd' = [fwd EXCEPT ![q] =
            IF authenticateToken(role) # 200
            THEN Respond([@ EXCEPT !.op = op], authenticateToken(role))
            ELSE [@ EXCEPT !.op = op, !.username = u, !.pc = pc]]

(* await Vendor.findOne({ username }) and the checks that follow it *)
FindVendor(q, ok, needsConnect, pc) ==
  LET found == VendorByUsername(fwd[q].username) IN
    fwd' = [fwd EXCEPT ![q] =
              IF ~ok THEN Respond(@, 500)
              ELSE IF found = {} THEN Respond(@, 404)
              ELSE LET v == CHOOSE x \in found : \A y \in found : x._id[2] <= y._id[2] IN
                   IF needsConnect /\ v.stripeConnectAccountId = None THEN Respond(@, 400)
                   ELSE [@ EXCEPT !.rec = v._id, !.cus = v.stripeCustomerId,
                                  !.was = v.subscriptionStatus,
                                  !.obj = v.stripeConnectAccountId, !.pc = pc]]

Call_Uncaught(q, ok, pc) ==
  fwd' = [fwd EXCEPT ![q] = IF ok THEN [@ EXCEPT !.pc = pc] ELSE Crash(@)]

(* an awaited call inside the handler's try whose result the handler does *)
(* not keep                                                               *)
Call(q, ok, pc) ==
  fwd' = [fwd EXCEPT ![q] = IF ok THEN [@ EXCEPT !.pc = pc] ELSE Respond(@, 500)]

SaveVendor_Replace(id, field, value) ==
  {IF v._id = id THEN [NewVendor(v._id, v.username, None) EXCEPT ![field] = value] ELSE v :
     v \in vendors}

(* vendor.save() of the document read by findOne, one field modified *)
SaveVendor(id, field, value) ==
  {IF v._id = id THEN [v EXCEPT ![field] = value] ELSE v : v \in vendors}

(* save() writes a path only when the assignment changed the value read *)
Modified(q) == fwd[q].status # fwd[q].was

LogAndRespond(q, ok, type, related, code) ==
  IF ok
  THEN /\ activityLog' = ActivityLogCreate(LogEntry(type, related, <<"fwd", q>>))
       /\ fwd' = [fwd EXCEPT ![q] = Respond(@, code)]
  ELSE /\ activityLog' = activityLog
       /\ fwd' = [fwd EXCEPT ![q] = Respond(@, 500)]

CreateCustomer(q) ==
  /\ Arrive(q)
  /\ fwd' = [fwd EXCEPT ![q] = [@ EXCEPT !.op = "create-customer", !.pc = "ccCreate"]]

CreateCustomerStripe(q, ok) ==
  /\ fwd[q].pc = "ccCreate"
  /\ Outcome(ok)
  /\ IF ok
     THEN /\ stripe' = [stripe EXCEPT !.nextCus = @ + 1]
          /\ fwd' = [fwd EXCEPT ![q] = [@ EXCEPT !.cus = <<"cus", stripe.nextCus>>, !.pc = "ccLog"]]
     ELSE /\ stripe' = stripe
          /\ fwd' = [fwd EXCEPT ![q] = Respond(@, 500)]
  /\ UNCHANGED <<store, events, hook, reg, appr, cinv, addc, login>>

CreateCustomerLog(q, ok) ==
  /\ fwd[q].pc = "ccLog"
  /\ Outcome(ok)
  /\ LogAndRespond(q, ok, "customer_added", fwd[q].cus, 201)
  /\ UNCHANGED <<vendors, invoices, nextOid, stripe, events, hook, reg, appr, cinv, addc, login>>

CreateSubscription(q, u, role) ==
  /\ Arrive(q)
  /\ Authenticated(q, "create-subscription", u, role, "csFind")

CreateSubscriptionFind(q, ok) ==
  /\ fwd[q].pc = "csFind"
  /\ Outcome(ok)
  /\ FindVendor(q, ok, FALSE, "csAttach")
  /\ UNCHANGED <<store, stripe, events, hook, reg, appr, cinv, addc, login>>

CreateSubscriptionAttach(q, ok) ==
  /\ fwd[q].pc = "csAttach"
  /\ Outcome(ok)
  /\ Call(q, ok, "csDefault")
  /\ UNCHANGED <<store, stripe, events, hook, reg, appr, cinv, addc, login>>

CreateSubscriptionDefault(q, ok) ==
  /\ fwd[q].pc = "csDefault"
  /\ Outcome(ok)
  /\ Call(q, ok, "csCreate")
  /\ UNCHANGED <<store, stripe, events, hook, reg, appr, cinv, addc, login>>

CreateSubscriptionCreate(q, ok, status) ==
  /\ fwd[q].pc = "csCreate"
  /\ Outcome(ok)
  /\ IF ok
     THEN /\ stripe' = [stripe EXCEPT !.subs =
                          IF status = "active" THEN @ \cup {fwd[q].cus} ELSE @]
          /\ fwd' = [fwd EXCEPT ![q] = [@ EXCEPT !.status = status, !.pc = "csSave"]]
     ELSE /\ stripe' = stripe
          /\ fwd' = [fwd EXCEPT ![q] = Respond(@, 500)]
  /\ UNCHANGED <<store, events, hook, reg, appr, cinv, addc, login>>

CreateSubscriptionSave(q, ok) ==
  /\ fwd[q].pc = "csSave"
  /\ Outcome(ok)
  /\ vendors' = IF ok /\ Modified(q)
                THEN SaveVendor(fwd[q].rec, "subscriptionStatus", fwd[q].status)
                ELSE vendors
  /\ Call(q, ok, "csLog")
  /\ UNCHANGED <<invoices, activityLog, nextOid, stripe, events, hook, reg, appr, cinv, addc, login>>

CreateSubscriptionLog(q, ok) ==
  /\ fwd[q].pc = "csLog"
  /\ Outcome(ok)
  /\ LogAndRespond(q, ok, "vendor_subscribed", fwd[q].rec, 200)
  /\ UNCHANGED <<vendors, invoices, nextOid, stripe, events, hook, reg, appr, cinv, addc, login>>

CancelSubscription(q, u, role) ==
  /\ Arrive(q)
  /\ Authenticated(q, "cancel-subscription", TokenUser(role, u), role, "xsFind")

CancelSubscriptionFind(q, ok) ==
  /\ fwd[q].pc = "xsFind"
  /\ Outcome(ok)
  /\ FindVendor(q, ok, FALSE, "xsList")
  /\ UNCHANGED <<store, stripe, events, hook, reg, appr, cinv, addc, login>>

CancelSubscriptionList(q, ok) ==
  /\ fwd[q].pc = "xsList"
  /\ Outcome(ok)
  /\ fwd' = [fwd EXCEPT ![q] =
               IF ~ok THEN Respond(@, 500)
               ELSE IF fwd[q].cus \notin stripe.subs THEN Respond(@, 400)
               ELSE [@ EXCEPT !.pc = "xsCancel"]]
  /\ UNCHANGED <<store, stripe, events, hook, reg, appr, cinv, addc, login>>

CancelSubscriptionCancel(q, ok) ==
  /\ fwd[q].pc = "xsCancel"
  /\ Outcome(ok)
  /\ IF ok
     THEN /\ stripe' = [stripe EXCEPT !.subs = @ \ {fwd[q].cus}]
          /\ fwd' = [fwd EXCEPT ![q] = [@ EXCEPT !.status = "canceled", !.pc = "xsSave"]]
     ELSE /\ stripe' = stripe
          /\ fwd' = [fwd EXCEPT ![q] = Respond(@, 500)]
  /\ UNCHANGED <<store, events, hook, reg, appr, cinv, addc, login>>

CancelSubscriptionSave(q, ok) ==
  /\ fwd[q].pc = "xsSave"
  /\ Outcome(ok)
  /\ vendors' = IF ok /\ Modified(q)
                THEN SaveVendor(fwd[q].rec, "subscriptionStatus", fwd[q].status)
                ELSE vendors
  /\ Call(q, ok, "xsLog")
  /\ UNCHANGED <<invoices, activityLog, nextOid, stripe, events, hook, reg, appr, cinv, addc, login>>

CancelSubscriptionLog(q, ok) ==
  /\ fwd[q].pc = "xsLog"
  /\ Outcome(ok)
  /\ LogAndRespond(q, ok, "subscription_canceled", fwd[q].rec, 200)
  /\ UNCHANGED <<vendors, invoices, nextOid, stripe, events, hook, reg, appr, cinv, addc, login>>

RequestPayout(q, u, role) ==
  /\ Arrive(q)
  /\ Authenticated(q, "request-payout", u, role, "rpFind")

RequestPayoutFind(q, ok) ==
  /\ fwd[q].pc = "rpFind"
  /\ Outcome(ok)
  /\ FindVendor(q, ok, TRUE, "rpCreate")
  /\ UNCHANGED <<store, stripe, events, hook, reg, appr, cinv, addc, login>>

RequestPayoutCreate(q, ok) ==
  /\ fwd[q].pc = "rpCreate"
  /\ Outcome(ok)
  /\ IF ok
     THEN /\ stripe' = [stripe EXCEPT !.nextObj = @ + 1]
          /\ fwd' = [fwd EXCEPT ![q] = [@ EXCEPT !.obj = <<"po", stripe.nextObj>>, !.pc = "rpLog"]]
     ELSE /\ stripe' = stripe
          /\ fwd' = [fwd EXCEPT ![q] = Respond(@, 500)]
  /\ UNCHANGED <<store, events, hook, reg, appr, cinv, addc, login>>

RequestPayoutLog(q, ok) ==
  /\ fwd[q].pc = "rpLog"
  /\ Outcome(ok)
  /\ LogAndRespond(q, ok, "payout_requested", fwd[q].obj, 200)
  /\ UNCHANGED <<vendors, invoices, nextOid, stripe, events, hook, reg, appr, cinv, addc, login>>

CreateConnectAccount(q, u, role) ==
  /\ Arrive(q)
  /\ Authenticated(q, "create-stripe-connect-account", u, role, "caFind")

CreateConnectAccountFind(q, ok) ==
  /\ fwd[q].pc = "caFind"
  /\ Outcome(ok)
  /\ FindVendor(q, ok, FALSE, "caCreate")
  /\ UNCHANGED <<store, stripe, events, hook, reg, appr, cinv, addc, login>>

CreateConnectAccountCreate(q, ok) ==
  /\ fwd[q].pc = "caCreate"
  /\ Outcome(ok)
  /\ IF ok
     THEN /\ stripe' = [stripe EXCEPT !.nextObj = @ + 1]
          /\ fwd' = [fwd EXCEPT ![q] = [@ EXCEPT !.obj = <<"acct", stripe.nextObj>>, !.pc = "caLink"]]
     ELSE /\ stripe' = stripe
          /\ fwd' = [fwd EXCEPT ![q] = Respond(@, 500)]
  /\ UNCHANGED <<store, events, hook, reg, appr, cinv, addc, login>>

CreateConnectAccountLink(q, ok) ==
  /\ fwd[q].pc = "caLink"
  /\ Outcome(ok)
  /\ Call(q, ok, "caSave")
  /\ UNCHANGED <<store, stripe, events, hook, reg, appr, cinv, addc, login>>

CreateConnectAccountSave(q, ok) ==
  /\ fwd[q].pc = "caSave"
  /\ Outcome(ok)
  /\ vendors' = IF ok THEN SaveVendor(fwd[q].rec, "stripeConnectAccountId", fwd[q].obj)
                ELSE vendors
  /\ fwd' = [fwd EXCEPT ![q] = Respond(@, IF ok THEN 200 ELSE 500)]
  /\ UNCHANGED <<invoices, activityLog, nextOid, stripe, events, hook, reg, appr, cinv, addc, login>>

----------------------------------------------------------------------------
(* POST /vendor/add-customer.  The vendor's username and the customer id   *)
(* both come from the body; the handler reads the vendor, tests the list   *)
(* it read and saves the pushed element.                                    *)

AddCustomer(k, u, cus, role) ==
  /\ addc[k].pc = "idle"
  /\ UNCHANGED faults
  /\ \A p \in AddCustomerRequests : p < k => addc[p].pc # "idle"
  /\ addc' = [addc EXCEPT ![k] =
                IF authenticateToken(role) # 200
                THEN Respond(@, authenticateToken(role))
                ELSE [@ EXCEPT !.username = u, !.customerId = cus, !.pc = "acFind"]]
  /\ UNCHANGED <<store, stripe, events, hook, reg, appr, cinv, fwd, login>>

AddCustomerFind(k, ok) ==
  /\ addc[k].pc = "acFind"
  /\ Outcome(ok)
  /\ LET found == VendorByUsername(addc[k].username) IN
       addc' = [addc EXCEPT ![k] =
                  IF ~ok THEN Respond(@, 500)
                  ELSE IF found = {} THEN Respond(@, 404)
                  ELSE LET v == CHOOSE x \in found : \A y \in found : x._id[2] <= y._id[2] IN
                       IF \E n \in DOMAIN v.customers : v.customers[n] = addc[k].customerId
                       THEN Respond(@, 409)
                       ELSE [@ EXCEPT !.rec = v._id, !.pc = "acSave"]]
  /\ UNCHANGED <<store, stripe, events, hook, reg, appr, cinv, fwd, login>>

(* vendor.save() after customers.push(customerId): the element is pushed   *)
(* onto the stored array                                                    *)
PushCustomer(id, cus) ==
  {IF v._id = id THEN [v EXCEPT !.customers = Append(@, cus)] ELSE v : v \in vendors}

AddCustomerSave(k, ok) ==
  /\ addc[k].pc = "acSave"
  /\ Outcome(ok)
  /\ vendors' = IF ok THEN PushCustomer(addc[k].rec, addc[k].customerId) ELSE vendors
  /\ addc' = [addc EXCEPT ![k] = Respond(@, IF ok THEN 200 ELSE 500)]
  /\ UNCHANGED <<invoices, activityLog, nextOid, stripe, events, hook, reg, appr, cinv, fwd,
                 login>>

----------------------------------------------------------------------------
(* POST /login.  match tells whether the submitted password is the one     *)
(* whose hash the vendor document holds; a response 200 carries the token. *)

Login(l, u, match) ==
  /\ login[l].pc = "idle"
  /\ UNCHANGED faults
  /\ \A p \in Logins : p < l => login[p].pc # "idle"
  /\ login' = [login EXCEPT ![l] = [@ EXCEPT !.username = u, !.match = match, !.pc = "lgFind"]]
  /\ UNCHANGED <<store, stripe, events, hook, reg, appr, cinv, fwd, addc>>

LoginFind(l, ok) ==
  /\ login[l].pc = "lgFind"
  /\ Outcome(ok)
  /\ LET found == VendorByUsername(login[l].username) IN
       login' = [login EXCEPT ![l] =
                   IF ~ok THEN Respond(@, 500)
                   ELSE IF found = {} THEN Respond(@, 401)
                   ELSE LET v == CHOOSE x \in found : \A y \in found : x._id[2] <= y._id[2] IN
                        [@ EXCEPT !.approved = v.approved, !.pc = "lgCompare"]]
  /\ UNCHANGED <<store, stripe, events, hook, reg, appr, cinv, fwd, addc>>

LoginCompare(l, ok) ==
  /\ login[l].pc = "lgCompare"
  /\ Outcome(ok)
  /\ login' = [login EXCEPT ![l] =
                 IF ~ok THEN Respond(@, 500)
                 ELSE IF ~login[l].match THEN Respond(@, 401)
                 ELSE IF ~login[l].approved THEN Respond(@, 403)
                 ELSE Respond(@, 200)]
  /\ UNCHANGED <<store, stripe, events, hook, reg, appr, cinv, fwd, addc>>

----------------------------------------------------------------------------
EmitOf(types) == \E e \in EventValues : e.type \in types /\ Emit(e)

AllTypes == {e.type : e \in EventValues}

Deliver(genuineOnly, chain) ==
  \E d \in Deliveries, rq \in Requests :
    /\ genuineOnly => rq.sig = Sign(WebhookSecret, rq.body)
    /\ Webhook(d, rq, chain)

Dispute ==
  \/ \E d \in Deliveries, ok \in BOOLEAN : Refund(d, ok)
  \/ \E d \in Deliveries, ok \in BOOLEAN : LogRefund(d, ok)
  \/ \E d \in Deliveries, ok \in BOOLEAN : LogRefundFailed(d, ok)

Subscription ==
  \/ \E d \in Deliveries, ok \in BOOLEAN : SubUpdate(d, ok)
  \/ \E d \in Deliveries, ok \in BOOLEAN : LogSub(d, ok)

InvoicePaid ==
  \/ \E d \in Deliveries, ok \in BOOLEAN : InvUpdate(d, ok)
  \/ \E d \in Deliveries, ok \in BOOLEAN : LogInv(d, ok)

AuditOnly == \E d \in Deliveries, ok \in BOOLEAN : LogAudit(d, ok)

(* The webhook route with its own raw body parser, every event type *)
Next ==
  \/ EmitOf(AllTypes)
  \/ Deliver(FALSE, RouteChain)
  \/ Dispute
  \/ Subscription
  \/ InvoicePaid
  \/ AuditOnly

Spec == Init /\ [][Next]_vars

(* Verification: genuine and forged requests, for a handled and an *)
(* unhandled event type                                            *)
NextVerify ==
  \/ EmitOf({"charge.dispute.created", "customer.created"})
  \/ Deliver(FALSE, RouteChain)
  \/ Dispute

SpecVerify == Init /\ [][NextVerify]_vars

(* Subscription reconciliation: genuine deliveries of subscription events *)
NextSub ==
  \/ EmitOf({"customer.subscription.updated"})
  \/ Deliver(TRUE, RouteChain)
  \/ Subscription

SpecSub == Init /\ [][NextSub]_vars

(* The endpoint behind the application-level middleware, as registered *)
NextPipeline ==
  \/ EmitOf(AllTypes)
  \/ Deliver(FALSE, AppChain)

SpecPipeline == Init /\ [][NextPipeline]_vars

(* The end-to-end scenario on an empty store: one registration, one      *)
(* approval, one invoice creation and the deliveries of the processor's  *)
(* payment events, each request handled to its end before the next one   *)
NextE2E ==
  \/ \E e \in EventValues :
        /\ InFlight = 0
        /\ e.type = "invoice.payment_succeeded"
        /\ e.ref # ExternalInv
        /\ Emit(e)
  \/ InFlight = 0 /\ Deliver(TRUE, RouteChain)
  \/ InvoicePaid
  \/ \E u \in Usernames : InFlight = 0 /\ Register(1, u)
  \/ \E ok \in BOOLEAN : RegisterFind(1, ok)
  \/ \E ok \in BOOLEAN : RegisterCustomer(1, ok)
  \/ \E ok \in BOOLEAN : RegisterSave(1, ok)
  \/ \E ok \in BOOLEAN : RegisterLog(1, ok)
  \/ \E u \in Usernames, role \in Roles :
        InFlight = 0 /\ TokenIssued(role) /\ Approve(1, u, role)
  \/ \E ok \in BOOLEAN : ApproveUpdate(1, ok)
  \/ \E ok \in BOOLEAN : ApproveLog(1, ok)
  \/ \E cus \in StripeCustomers, amount \in Amounts, role \in Roles :
        InFlight = 0 /\ TokenIssued(role) /\ CreateInvoice(1, cus, amount, role)
  \/ \E outcome \in {"error", "auto", "manual"}, charged \in BOOLEAN :
        CreateInvoiceStripe(1, outcome, charged)
  \/ \E ok \in BOOLEAN : CreateInvoiceSave(1, ok)
  \/ \E ok \in BOOLEAN : CreateInvoiceLog(1, ok)

SpecE2E == InitEmpty /\ [][NextE2E]_vars

(* Routing: genuine deliveries of events of every type, one at a time; the *)
(* processor emits an event once the earlier ones have been delivered      *)
AllDelivered == \A k \in DOMAIN events : \E d \in Deliveries : hook[d].evt = k

NextRoute ==
  \/ InFlight = 0 /\ AllDelivered /\ EmitOf(AllTypes)
  \/ InFlight = 0 /\ Deliver(TRUE, RouteChain)
  \/ Dispute
  \/ Subscription
  \/ InvoicePaid
  \/ AuditOnly

SpecRoute == Init /\ [][NextRoute]_vars

(* Invoice records: on a store that already holds an invoice, one          *)
(* create-invoice request and genuine deliveries of                        *)
(* invoice.payment_succeeded, each request handled to its end before the   *)
(* next one arrives                                                        *)
InvoiceCreationFor(customers) ==
  \/ \E cus \in customers, amount \in Amounts, role \in Roles :
        InFlight = 0 /\ CreateInvoice(1, cus, amount, role)
  \/ \E outcome \in {"error", "auto", "manual"}, charged \in BOOLEAN :
        CreateInvoiceStripe(1, outcome, charged)
  \/ \E ok \in BOOLEAN : CreateInvoiceSave(1, ok)
  \/ \E ok \in BOOLEAN : CreateInvoiceLog(1, ok)

InvoiceCreation == InvoiceCreationFor(StripeCustomers)

NextInvoice ==
  \/ EmitOf({"invoice.payment_succeeded"})
  \/ InFlight = 0 /\ Deliver(TRUE, RouteChain)
  \/ InvoicePaid
  \/ InvoiceCreation

SpecInvoice == Init /\ [][NextInvoice]_vars

(* Forward actions that call the processor, each request handled to its *)
(* end before the next one arrives                                      *)
Registration ==
  \/ \E u \in Applicants : InFlight = 0 /\ Register(1, u)
  \/ \E ok \in BOOLEAN : RegisterFind(1, ok)
  \/ \E ok \in BOOLEAN : RegisterCustomer(1, ok)
  \/ \E ok \in BOOLEAN : RegisterSave(1, ok)
  \/ \E ok \in BOOLEAN : RegisterLog(1, ok)

CustomerCreation ==
  \/ \E q \in RequestSlots : InFlight = 0 /\ CreateCustomer(q)
  \/ \E q \in RequestSlots, ok \in BOOLEAN : CreateCustomerStripe(q, ok)
  \/ \E q \in RequestSlots, ok \in BOOLEAN : CreateCustomerLog(q, ok)

SubscriptionCreation ==
  \/ \E q \in RequestSlots, u \in Usernames, role \in Roles :
        InFlight = 0 /\ TokenIssued(role) /\ CreateSubscription(q, u, role)
  \/ \E q \in RequestSlots, ok \in BOOLEAN : CreateSubscriptionFind(q, ok)
  \/ \E q \in RequestSlots, ok \in BOOLEAN : CreateSubscriptionAttach(q, ok)
  \/ \E q \in RequestSlots, ok \in BOOLEAN : CreateSubscriptionDefault(q, ok)
  \/ \E q \in RequestSlots, ok \in BOOLEAN, status \in CreatedStatuses :
        CreateSubscriptionCreate(q, ok, status)
  \/ \E q \in RequestSlots, ok \in BOOLEAN : CreateSubscriptionSave(q, ok)
  \/ \E q \in RequestSlots, ok \in BOOLEAN : CreateSubscriptionLog(q, ok)

SubscriptionCancellation ==
  \/ \E q \in RequestSlots, u \in Usernames, role \in Roles :
        InFlight = 0 /\ TokenIssued(role) /\ CancelSubscription(q, u, role)
  \/ \E q \in RequestSlots, ok \in BOOLEAN : CancelSubscriptionFind(q, ok)
  \/ \E q \in RequestSlots, ok \in BOOLEAN : CancelSubscriptionList(q, ok)
  \/ \E q \in RequestSlots, ok \in BOOLEAN : CancelSubscriptionCancel(q, ok)
  \/ \E q \in RequestSlots, ok \in BOOLEAN : CancelSubscriptionSave(q, ok)
  \/ \E q \in RequestSlots, ok \in BOOLEAN : CancelSubscriptionLog(q, ok)

Payout ==
  \/ \E q \in RequestSlots, u \in Usernames, role \in Roles :
        InFlight = 0 /\ TokenIssued(role) /\ RequestPayout(q, u, role)
  \/ \E q \in RequestSlots, ok \in BOOLEAN : RequestPayoutFind(q, ok)
  \/ \E q \in RequestSlots, ok \in BOOLEAN : RequestPayoutCreate(q, ok)
  \/ \E q \in RequestSlots, ok \in BOOLEAN : RequestPayoutLog(q, ok)

ConnectAccount ==
  \/ \E q \in RequestSlots, u \in Usernames, role \in Roles :
        InFlight = 0 /\ TokenIssued(role) /\ CreateConnectAccount(q, u, role)
  \/ \E q \in RequestSlots, ok \in BOOLEAN : CreateConnectAccountFind(q, ok)
  \/ \E q \in RequestSlots, ok \in BOOLEAN : CreateConnectAccountCreate(q, ok)
  \/ \E q \in RequestSlots, ok \in BOOLEAN : CreateConnectAccountLink(q, ok)
  \/ \E q \in RequestSlots, ok \in BOOLEAN : CreateConnectAccountSave(q, ok)

Approval ==
  \/ \E a \in Approvals, u \in Applicants, role \in Roles :
        InFlight = 0 /\ TokenIssued(role) /\ Approve(a, u, role)
  \/ \E a \in Approvals, ok \in BOOLEAN : ApproveUpdate(a, ok)
  \/ \E a \in Approvals, ok \in BOOLEAN : ApproveLog(a, ok)

NextForward ==
  \/ Registration
  \/ InvoiceCreationFor({ExternalCus})
  \/ CustomerCreation
  \/ SubscriptionCreation
  \/ SubscriptionCancellation
  \/ Payout
  \/ ConnectAccount

SpecForward == InitSubscribed /\ [][NextForward]_vars

(* Every operation that writes the ledger.  In one behaviour the server   *)
(* receives requests of one family only: webhook deliveries, approvals, or *)
(* the forward actions that call the processor.                            *)
NoForward ==
  /\ \A r \in Registrations : reg[r].pc = "idle"
  /\ \A c \in InvoiceRequests : cinv[c].pc = "idle"
  /\ \A q \in RequestSlots : fwd[q].pc = "idle"

NoApproval == \A a \in Approvals : appr[a].pc = "idle"

NoDelivery == events = <<>>

NextLedger ==
  \/ NoForward /\ NoApproval /\ NextRoute
  \/ NoDelivery /\ NoApproval /\ NextForward
  \/ NoDelivery /\ NoForward /\ Approval

SpecLedger == InitSubscribed /\ [][NextLedger]_vars

(* POST /vendor/add-customer requests, which may overlap *)
CustomerAssociation ==
  \/ \E k \in AddCustomerRequests, u \in Usernames, role \in Roles :
        TokenIssued(role) /\ AddCustomer(k, u, ExternalCus, role)
  \/ \E k \in AddCustomerRequests, ok \in BOOLEAN : AddCustomerFind(k, ok)
  \/ \E k \in AddCustomerRequests, ok \in BOOLEAN : AddCustomerSave(k, ok)

NoAssociation == \A k \in AddCustomerRequests : addc[k].pc = "idle"

(* Every operation that writes a Vendor document, one family per behaviour *)
NextVendor ==
  \/ NoAssociation /\ NextLedger
  \/ NoDelivery /\ NoForward /\ NoApproval /\ CustomerAssociation

SpecVendor == InitSubscribed /\ [][NextVendor]_vars

(* Registration of a second vendor and approvals, beside an approved vendor *)
NextAccess ==
  \/ Registration
  \/ Approval

SpecAccess == InitSubscribed /\ [][NextAccess]_vars

(* A subscription request overlapping the deliveries of the subscription   *)
(* events the processor emits once it has served the request's call.       *)
Called ==
  \E q \in RequestSlots :
     fwd[q].op \in {"create-subscription", "cancel-subscription"} /\ fwd[q].status # ""

NextRace ==
  \/ Called /\ EmitOf({"customer.subscription.updated"})
  \/ Deliver(TRUE, RouteChain)
  \/ Subscription
  \/ SubscriptionCreation
  \/ SubscriptionCancellation

SpecRace == InitSubscribed /\ [][NextRace]_vars

(* One create-invoice request overlapping the deliveries of                *)
(* invoice.payment_succeeded, which the processor emits for an invoice as  *)
(* soon as it has created it                                                *)
NextInvoiceRace ==
  \/ EmitOf({"invoice.payment_succeeded"})
  \/ Deliver(TRUE, RouteChain)
  \/ InvoicePaid
  \/ InvoiceCreation

SpecInvoiceRace == Init /\ [][NextInvoiceRace]_vars

(* From the empty store: registration, approval and logins, each request   *)
(* handled to its end before the next one arrives                           *)
Authentication ==
  \/ \E l \in Logins, u \in Applicants, match \in BOOLEAN :
        InFlight = 0 /\ Login(l, u, match)
  \/ \E l \in Logins, ok \in BOOLEAN : LoginFind(l, ok)
  \/ \E l \in Logins, ok \in BOOLEAN : LoginCompare(l, ok)

NextLogin ==
  \/ Registration
  \/ Approval
  \/ Authentication

SpecLogin == InitEmpty /\ [][NextLogin]_vars

(* From the empty store: register requests that may overlap *)
NextRegisterRace ==
  \/ \E r \in Registrations, u \in Applicants : Register(r, u)
  \/ \E r \in Registrations, ok \in BOOLEAN : RegisterFind(r, ok)
  \/ \E r \in Registrations, ok \in BOOLEAN : RegisterCustomer(r, ok)
  \/ \E r \in Registrations, ok \in BOOLEAN : RegisterSave(r, ok)
  \/ \E r \in Registrations, ok \in BOOLEAN : RegisterLog(r, ok)

SpecRegisterRace == InitEmpty /\ [][NextRegisterRace]_vars

(* Add-customer requests that may overlap, for any customer the processor  *)
(* knows and for a vendor the store may not hold                            *)
NextAssociate ==
  \/ \E k \in AddCustomerRequests, u \in Applicants, cus \in StripeCustomers, role \in Roles :
        TokenIssued(role) /\ AddCustomer(k, u, cus, role)
  \/ \E k \in AddCustomerRequests, ok \in BOOLEAN : AddCustomerFind(k, ok)
  \/ \E k \in AddCustomerRequests, ok \in BOOLEAN : AddCustomerSave(k, ok)

SpecAssociate == InitSubscribed /\ [][NextAssociate]_vars

----------------------------------------------------------------------------
(* Properties of the webhook endpoint, checked under Spec *)

Range(f) == {f[x] : x \in DOMAIN f}

Ended(h) == h.pc \in {"done", "crashed"}

Verified(h) == h.evt # 0

EntriesBy(d) == {i \in DOMAIN activityLog : activityLog[i].by = <<"hook", d>>}

RefundsBy(d) == {i \in DOMAIN stripe.refunds : stripe.refunds[i].by = <<"hook", d>>}

DeliveriesOf(k) == {d \in Deliveries : hook[d].evt = k}

MutationTypes ==
  {"invoice_paid", "subscription_status_updated", "fraud_warning_refund",
   "payout_succeeded", "payout_failed", "charge_refunded"}

\* C1: for any charge.dispute.created event, all deliveries of that event together
\* issue at most one refund call.
C1_OneRefundPerEvent ==
  \A k \in DOMAIN events :
    events[k].type = "charge.dispute.created" =>
      Cardinality(UNION {RefundsBy(d) : d \in DeliveriesOf(k)}) <= 1

\* C2: for any event, all deliveries of that event together write at most one
\* ledger entry of a mutation type.
C2_OneEntryPerEvent ==
  \A k \in DOMAIN events :
    Cardinality({i \in UNION {EntriesBy(d) : d \in DeliveriesOf(k)} :
                   activityLog[i].eventType \in MutationTypes}) <= 1

\* C3: a delivery of a dispute event whose handler has ended made exactly one
\* refund attempt and wrote exactly one ledger entry, fraud_warning_refund iff
\* the refund call succeeded and fraud_warning_refund_failed iff it failed.
C3_DisputeOutcome ==
  \A d \in Deliveries :
    (Verified(hook[d]) /\ Ended(hook[d])
       /\ events[hook[d].evt].type = "charge.dispute.created") =>
      /\ Cardinality(RefundsBy(d)) = 1
      /\ Cardinality(EntriesBy(d)) = 1
      /\ \A i \in EntriesBy(d) :
           /\ activityLog[i].relatedId = events[hook[d].evt].ref
           /\ activityLog[i].eventType =
                IF hook[d].refund = "ok" THEN "fraud_warning_refund"
                ELSE "fraud_warning_refund_failed"

\* C4: a verified delivery never ends without the response 200 (it is never
\* left unanswered and never answered with an error status).
C4_AlwaysAcknowledged ==
  \A d \in Deliveries :
    (Verified(hook[d]) /\ Ended(hook[d])) => hook[d].resp = <<200>>

Genuine(h) == h.sig.secret = WebhookSecret /\ h.sig.mac = h.body

C6_GenuineAccepted ==
  \A d \in Deliveries :
    (hook[d].pc # "idle" /\ Genuine(hook[d])) =>
      /\ 400 \notin Range(hook[d].resp)
      /\ Verified(hook[d])

LastReported(cus) ==
  LET ks == {k \in DOMAIN events : events[k].type = "customer.subscription.updated"
                                    /\ events[k].ref = cus} IN
    IF ks = {} THEN "" ELSE events[CHOOSE k \in ks : \A j \in ks : j <= k].status

Quiescent ==
  /\ \A d \in Deliveries : ~Busy(hook[d]) /\ hook[d].hit # "error"
  /\ \A k \in DOMAIN events :
       events[k].type = "customer.subscription.updated" =>
         \E d \in DeliveriesOf(k) : hook[d].pc = "done"

\* C7: at quiescence (every subscription event delivered and handled to the
\* end, no store call having failed) every Vendor whose customer has had a
\* subscription event carries the status of the most recent of those events.
C7_LastReportedStatus ==
  Quiescent =>
    \A v \in vendors :
      LastReported(v.stripeCustomerId) # "" =>
        v.subscriptionStatus = LastReported(v.stripeCustomerId)

\* C8 (as stated): when the handler of a customer.subscription.updated event
\* ends, a Vendor with that customer has status X and the delivery has appended
\* exactly one subscription_status_updated entry with that vendor's id; with no
\* such Vendor the delivery has appended no entry.
C8_AsStated ==
  [][\A d \in Deliveries :
       (hook[d].pc \in {"subUpdate", "logSub"} /\ hook'[d].pc = "done") =>
         LET ev == events[hook[d].evt]
             vs == {v \in vendors' : v.stripeCustomerId = ev.ref}
             es == {i \in DOMAIN activityLog' : activityLog'[i].by = <<"hook", d>>} IN
           IF vs = {} THEN es = {} /\ vendors' = vendors
           ELSE /\ \A v \in vs : v.subscriptionStatus = ev.status
                /\ Cardinality(es) = 1
                /\ \A i \in es : /\ activityLog'[i].eventType = "subscription_status_updated"
                                 /\ activityLog'[i].relatedId \in {v._id : v \in vs}]_vars

\* C8 (amended): the update step sets the matching Vendor's status to X when the
\* store call succeeds and changes no Vendor otherwise (no match, or the call
\* throws); the ledger step appends exactly one subscription_status_updated
\* entry with that vendor's id when the ledger call succeeds and none when it
\* throws; a delivery that did not update a Vendor appends nothing.
C8_UpdateAndLog ==
  [][\A d \in Deliveries :
       LET ev == events[hook[d].evt]
           vs == {v \in vendors : v.stripeCustomerId = ev.ref}
           threw == faults' # faults IN
         /\ (hook[d].pc = "subUpdate" /\ hook'[d] # hook[d]) =>
              /\ activityLog' = activityLog
              /\ IF vs # {} /\ ~threw
                 THEN /\ \E v \in vs :
                           vendors' = (vendors \ {v})
                                        \cup {[v EXCEPT !.subscriptionStatus = ev.status]}
                      /\ hook'[d].pc = "logSub"
                 ELSE /\ vendors' = vendors
                      /\ hook'[d].pc = "done"
                      /\ hook'[d].resp = <<200>>
         /\ (hook[d].pc = "logSub" /\ hook'[d] # hook[d]) =>
              /\ vendors' = vendors
              /\ hook'[d].pc = "done"
              /\ IF threw THEN activityLog' = activityLog
                 ELSE \E v \in vs :
                        activityLog' = Append(activityLog,
                          [eventType |-> "subscription_status_updated",
                           relatedId |-> v._id, by |-> <<"hook", d>>])]_vars

C8_Witness ==
  \E d \in Deliveries :
    /\ hook[d].pc = "done"
    /\ hook[d].hit = "found"
    /\ events[hook[d].evt].type = "customer.subscription.updated"
    /\ \E i \in EntriesBy(d) : activityLog[i].eventType = "subscription_status_updated"
    /\ \E p \in Deliveries : hook[p].pc = "done" /\ hook[p].hit = "miss"

\* C9: a reconciliation delivery whose lookup found no local record has appended
\* an audit entry to the ledger and is answered 200.
C9_MissIsAudited ==
  \A d \in Deliveries :
    (hook[d].pc = "done" /\ hook[d].hit = "miss") =>
      /\ EntriesBy(d) # {}
      /\ hook[d].resp = <<200>>

PaidEventsFor(id) ==
  {k \in DOMAIN events : events[k].type = "invoice.payment_succeeded" /\ events[k].ref = id}

C11_InvoiceLifecycle ==
  [][\A i \in invoices :
       \E j \in invoices' :
         /\ j._id = i._id
         /\ \/ j = i
            \/ /\ j = [i EXCEPT !.status = "paid"]
               /\ \E d \in Deliveries :
                    /\ hook[d].pc = "invUpdate" /\ hook'[d].pc = "logInv"
                    /\ events[hook[d].evt].type = "invoice.payment_succeeded"
                    /\ events[hook[d].evt].ref = i.id]_vars

C11_Witness ==
  /\ cinv[1].pc = "done"
  /\ \E i \in invoices, d1, d2 \in Deliveries :
       /\ d1 # d2
       /\ i.status = "paid"
       /\ hook[d1].pc = "done" /\ hook[d1].hit = "found"
       /\ hook[d2].pc = "done" /\ hook[d2].hit = "found"
       /\ hook[d1].evt = hook[d2].evt
       /\ events[hook[d1].evt].ref = i.id
  /\ Cardinality(invoices) = 2

\* C12: an Invoice record written by create-invoice carries the initial status
\* paid exactly when the processor returned the finalized invoice as charged,
\* and open otherwise.
C12_PaidOnlyWhenCharged ==
  \A c \in InvoiceRequests :
    (cinv[c].inv # None /\ InvoiceById(cinv[c].inv) # {}) =>
      (cinv[c].status = "paid" <=> cinv[c].charged)

OwnEntries(type) ==
  CASE type = "charge.dispute.created" -> {"fraud_warning_refund", "fraud_warning_refund_failed"}
    [] type = "customer.subscription.updated" -> {"subscription_status_updated"}
    [] type = "invoice.payment_succeeded" -> {"invoice_paid"}
    [] type = "payout.succeeded" -> {"payout_succeeded"}
    [] type = "payout.failed" -> {"payout_failed"}
    [] type = "charge.refunded" -> {"charge_refunded"}
    [] OTHER -> {}

\* C13: every step of the handler of a verified event does only what belongs
\* to the event's own type: a processor call only for charge.dispute.created,
\* a Vendor change only for customer.subscription.updated, an Invoice change
\* only for invoice.payment_succeeded, and a ledger entry only of the entry
\* types of that event type (nothing of the next case of the switch).
C13_OwnBranchOnly ==
  [][\A d \in Deliveries :
       (hook'[d] # hook[d] /\ hook'[d].evt # 0) =>
         LET type == events[hook'[d].evt].type IN
           /\ stripe' # stripe => type = "charge.dispute.created"
           /\ vendors' # vendors => type = "customer.subscription.updated"
           /\ invoices' # invoices => type = "invoice.payment_succeeded"
           /\ activityLog' # activityLog =>
                /\ Len(activityLog') = Len(activityLog) + 1
                /\ activityLog'[Len(activityLog')].eventType \in OwnEntries(type)]_vars

C13_Witness ==
  \E d \in Deliveries :
    /\ hook[d].pc = "done"
    /\ hook[d].hit = "found"
    /\ events[hook[d].evt].type = "invoice.payment_succeeded"
    /\ Cardinality(EntriesBy(d)) = 1
    /\ \A n \in EntriesBy(d) : activityLog[n].eventType = "invoice_paid"

HandledTypes ==
  {"charge.dispute.created", "customer.subscription.updated", "invoice.payment_succeeded",
   "payout.succeeded", "payout.failed", "charge.refunded"}

\* C14: the step that receives a verified event of a type outside the handled
\* types ends the request with the single response 200 and leaves vendors,
\* invoices, the ledger and the processor unchanged; the delivery never
\* appends a ledger entry or makes a refund call.
C14_UnhandledOnlyAcknowledged ==
  [][\A d \in Deliveries :
       (hook'[d] # hook[d] /\ hook'[d].evt # 0
          /\ events[hook'[d].evt].type \notin HandledTypes) =>
         /\ hook[d].pc = "idle"
         /\ hook'[d].pc = "done"
         /\ hook'[d].resp = <<200>>
         /\ UNCHANGED <<vendors, invoices, activityLog, stripe>>]_vars

C14_Witness ==
  \E d \in Deliveries :
    /\ hook[d].pc = "done"
    /\ hook[d].evt # 0
    /\ events[hook[d].evt].type = "customer.created"
    /\ hook[d].resp = <<200>>
    /\ EntriesBy(d) = {}

AuditTypes == {"payout.succeeded", "payout.failed", "charge.refunded"}

\* C15 (as stated): a delivery of payout.succeeded, payout.failed or
\* charge.refunded whose handler has ended has appended exactly one ledger
\* entry, of the type of the event and with relatedId the event object's id.
C15_AsStated ==
  \A d \in Deliveries :
    (Verified(hook[d]) /\ Ended(hook[d]) /\ events[hook[d].evt].type \in AuditTypes) =>
      /\ Cardinality(EntriesBy(d)) = 1
      /\ \A n \in EntriesBy(d) :
           /\ activityLog[n].eventType \in OwnEntries(events[hook[d].evt].type)
           /\ activityLog[n].relatedId = events[hook[d].evt].ref

\* C15 (amended): handling payout.succeeded, payout.failed or charge.refunded
\* changes no Vendor, no Invoice and makes no processor call; its one ledger
\* step appends exactly one entry, of the type of the event and with relatedId
\* the event object's id, and answers 200 when the ledger write succeeds; when
\* the write throws nothing is appended and the handler ends unanswered.
C15_AuditOnly ==
  [][\A d \in Deliveries :
       (hook'[d] # hook[d] /\ hook'[d].evt # 0
          /\ events[hook'[d].evt].type \in AuditTypes) =>
         LET ev == events[hook'[d].evt]
             threw == faults' # faults IN
           /\ UNCHANGED <<vendors, invoices, stripe>>
           /\ IF hook[d].pc = "idle"
              THEN activityLog' = activityLog /\ hook'[d].pc = "logAudit"
              ELSE /\ hook[d].pc = "logAudit"
                   /\ IF threw
                      THEN /\ activityLog' = activityLog
                           /\ hook'[d].pc = "crashed"
                           /\ hook'[d].resp = <<>>
                      ELSE /\ \E t \in OwnEntries(ev.type) :
                                activityLog' = Append(activityLog,
                                  [eventType |-> t, relatedId |-> ev.ref, by |-> <<"hook", d>>])
                           /\ hook'[d].pc = "done"
                           /\ hook'[d].resp = <<200>>]_vars

C15_Witness ==
  \E d \in Deliveries :
    /\ hook[d].pc = "done"
    /\ hook[d].evt # 0
    /\ events[hook[d].evt].type = "payout.failed"
    /\ Cardinality(EntriesBy(d)) = 1
    /\ \A n \in EntriesBy(d) :
         activityLog[n].eventType = "payout_failed" /\ activityLog[n].relatedId = Payout1

\* C16: a request whose primary step succeeded (the Vendor was saved by
\* register, or approved by approve) and that has ended reports success, 201
\* for register and 200 for approve, whatever the outcome of its ledger write.
C16_LedgerFailureNotReported ==
  /\ \A r \in Registrations :
       (reg[r].pc = "done" /\ reg[r].rec # None) => reg[r].resp = <<201>>
  /\ \A a \in Approvals :
       (appr[a].pc = "done" /\ appr[a].rec # None) => appr[a].resp = <<200>>

\* C17: when the store write of a reconciliation handler throws, the handler
\* does not end in that step: it goes on to a step that writes a ledger entry
\* recording the failure.
C17_FailureIsAudited ==
  [][\A d \in Deliveries :
       (hook[d].pc \in {"subUpdate", "invUpdate"} /\ hook'[d] # hook[d]
          /\ faults' # faults) =>
         ~Ended(hook'[d])]_vars

\* C20: every external customer created by a register request that has ended
\* is the stripeCustomerId of exactly one persisted Vendor, and no two Vendors
\* share a stripeCustomerId.
C20_CustomerPairedWithVendor ==
  /\ \A r \in Registrations :
       (Ended(reg[r]) /\ reg[r].cus # None) =>
         Cardinality(VendorByCustomer(reg[r].cus)) = 1
  /\ \A v, w \in vendors : v.stripeCustomerId = w.stripeCustomerId => v = w

ProcessorSteps ==
  {"ccCreate", "csAttach", "csDefault", "csCreate", "xsList", "xsCancel", "rpCreate",
   "caCreate", "caLink"}

\* C19: in every forward action, the step in which a processor call throws ends
\* the request with exactly one response, the error 500 (the request does not
\* crash and is not left unanswered), and an ended request sends nothing more.
C19_ProcessorFailureAnswered ==
  [][LET threw == faults' # faults IN
       /\ \A r \in Registrations :
            /\ (reg[r].pc = "customer" /\ reg'[r] # reg[r] /\ threw) =>
                 reg'[r].pc = "done" /\ reg'[r].resp = <<500>>
            /\ Ended(reg[r]) => reg'[r] = reg[r]
       /\ \A c \in InvoiceRequests :
            /\ (cinv[c].pc = "stripe" /\ cinv'[c] # cinv[c] /\ threw) =>
                 cinv'[c].pc = "done" /\ cinv'[c].resp = <<500>>
            /\ Ended(cinv[c]) => cinv'[c] = cinv[c]
       /\ \A q \in RequestSlots :
            /\ (fwd[q].pc \in ProcessorSteps /\ fwd'[q] # fwd[q] /\ threw) =>
                 fwd'[q].pc = "done" /\ fwd'[q].resp = <<500>>
            /\ Ended(fwd[q]) => fwd'[q] = fwd[q]]_vars

C19_Witness ==
  /\ faults > 0
  /\ \E q \in RequestSlots :
       /\ fwd[q].op = "create-subscription"
       /\ fwd[q].pc = "done"
       /\ fwd[q].rec # None
       /\ fwd[q].status = ""
       /\ fwd[q].resp = <<500>>

\* C18: every step either leaves the ledger unchanged or appends one entry to
\* it: the entries already there keep their place and their content.
C18_LedgerAppendOnly ==
  [][\/ activityLog' = activityLog
     \/ /\ Len(activityLog') = Len(activityLog) + 1
        /\ SubSeq(activityLog', 1, Len(activityLog)) = activityLog]_vars

C18_Witness ==
  /\ Len(activityLog) >= 6
  /\ \E m, n \in DOMAIN activityLog :
       /\ m < n
       /\ activityLog[m].eventType = "charge_refunded"
       /\ activityLog[n].eventType = "charge_refunded"
       /\ activityLog[m].relatedId = activityLog[n].relatedId

----------------------------------------------------------------------------
(* C21: every persisted Vendor holds a processor customer id, no step     *)
(* changes the id a Vendor holds, and no step removes a Vendor.            *)
C21_CustomerIdFixed ==
  [][/\ \A v \in vendors :
          /\ v.stripeCustomerId # None
          /\ \E w \in vendors' : w._id = v._id /\ w.stripeCustomerId = v.stripeCustomerId
     /\ \A w \in vendors' : w.stripeCustomerId # None]_vars

(* a registered vendor exists next to a vendor whose document a later     *)
(* forward action saved                                                    *)
C21_Witness ==
  /\ \E r \in Registrations :
        /\ reg[r].resp = <<201>>
        /\ \E v \in vendors : v._id = reg[r].rec /\ v.stripeCustomerId = reg[r].cus
  /\ \E q \in RequestSlots :
        /\ fwd[q].op \in {"create-subscription", "cancel-subscription",
                          "create-stripe-connect-account"}
        /\ fwd[q].resp = <<200>>

----------------------------------------------------------------------------
(* C22: a Vendor's approved flag goes from false to true only in a step of *)
(* an approve request that carries an admin-role token.                     *)
C22_OnlyAdminApproves ==
  [][\A v \in vendors, w \in vendors' :
        (w._id = v._id /\ ~v.approved /\ w.approved)
        => \E a \in Approvals :
              /\ appr[a].pc = "update"
              /\ appr'[a].pc = "log"
              /\ appr[a].role = "admin"]_vars

----------------------------------------------------------------------------
(* C23: when a webhook delivery has applied the status of an event the     *)
(* processor emitted after serving the request's call, the save of         *)
(* create-subscription or cancel-subscription leaves the Vendor as the     *)
(* webhook wrote it.                                                        *)
C23_SaveKeepsLaterStatus ==
  [][\A q \in RequestSlots :
        (/\ fwd[q].pc \in {"csSave", "xsSave"}
         /\ fwd'[q].pc # fwd[q].pc
         /\ \E d \in Deliveries : hook[d].hit = "found" /\ hook[d].rec = fwd[q].rec)
        => \A v \in vendors : v._id = fwd[q].rec => v \in vendors']_vars

----------------------------------------------------------------------------
(* C24: when a delivery of invoice.payment_succeeded for an invoice found  *)
(* no local record because create-invoice had not persisted it yet, then   *)
(* once the delivery and the request have both finished the local record   *)
(* exists with status paid.                                                 *)
C24_EarlyPaymentKept ==
  \A c \in InvoiceRequests, d \in Deliveries :
     (/\ cinv[c].pc = "done"
      /\ hook[d].pc = "done"
      /\ hook[d].hit = "miss"
      /\ events[hook[d].evt].type = "invoice.payment_succeeded"
      /\ events[hook[d].evt].ref = cinv[c].inv)
     => /\ InvoiceById(cinv[c].inv) # {}
        /\ \A i \in InvoiceById(cinv[c].inv) : i.status = "paid"

----------------------------------------------------------------------------
(* C25: a create-invoice request that has been answered 200 has its        *)
(* Invoice record and its ledger entry persisted, and a request that has   *)
(* ended was sent exactly one response.                                     *)
C25_AnsweredAfterStored ==
  \A c \in InvoiceRequests :
     /\ (\E n \in DOMAIN cinv[c].resp : cinv[c].resp[n] = 200)
        => /\ InvoiceById(cinv[c].inv) # {}
           /\ \E n \in DOMAIN activityLog : activityLog[n].by = <<"cinv", c>>
     /\ cinv[c].pc \in {"done", "crashed"} => Len(cinv[c].resp) = 1

----------------------------------------------------------------------------
(* C26: a login answered 200 (token issued) submitted the right password   *)
(* for an existing, approved Vendor, and a register request for that       *)
(* username was answered 201 and an approve request for it was answered    *)
(* 200; a login that read an unapproved Vendor is not answered 200; and    *)
(* approved never returns to false.                                         *)
C26_LoginAfterRegisterAndApprove ==
  [][/\ \A v \in vendors : v.approved => \E w \in vendors' : w._id = v._id /\ w.approved
     /\ \A l \in Logins :
          (login'[l].resp = <<200>>)
          => /\ login'[l].match
             /\ login'[l].approved
             /\ \E w \in vendors' : w.username = login'[l].username /\ w.approved
             /\ \E r \in Registrations :
                   reg'[r].username = login'[l].username /\ reg'[r].resp = <<201>>
             /\ \E a \in Approvals :
                   appr'[a].username = login'[l].username /\ appr'[a].resp = <<200>>]_vars

----------------------------------------------------------------------------
(* C27: no two Vendors share a username; of the register requests for one  *)
(* username at most one is answered 201; and, while no call has failed, a  *)
(* register request that ended for a username held by a Vendor it did not  *)
(* create was answered 409 and created no processor customer, Vendor or    *)
(* ledger entry.                                                            *)
C27_TakenUsernameRejected ==
  /\ \A v, w \in vendors : v.username = w.username => v = w
  /\ \A r1, r2 \in Registrations :
        (r1 # r2 /\ reg[r1].username = reg[r2].username /\ reg[r1].resp = <<201>>)
        => reg[r2].resp # <<201>>
  /\ \A r \in Registrations :
        (/\ faults = 0
         /\ reg[r].pc = "done"
         /\ \E v \in vendors : v.username = reg[r].username /\ v._id # reg[r].rec)
        => /\ reg[r].resp = <<409>>
           /\ reg[r].cus = None
           /\ reg[r].rec = None
           /\ \A n \in DOMAIN activityLog : activityLog[n].by # <<"reg", r>>

----------------------------------------------------------------------------
(* C28: no Vendor's customers list holds the same id twice, and of the     *)
(* add-customer requests for one vendor and one customer id at most one is *)
(* answered 200 (a request for an id already in the list is answered 409). *)
C28_CustomersDistinct ==
  /\ \A v \in vendors : \A m, n \in DOMAIN v.customers :
        m # n => v.customers[m] # v.customers[n]
  /\ \A k1, k2 \in AddCustomerRequests :
        (/\ k1 # k2
         /\ addc[k1].username = addc[k2].username
         /\ addc[k1].customerId = addc[k2].customerId
         /\ addc[k1].resp = <<200>>)
        => addc[k2].resp # <<200>>

============================================================================
